---- MODULE Spec2Model ----
(***************************************************************************)
(* The request execution core of the PeerCat Rust SDK: PeerCat::request    *)
(* (src/src/client.rs), the error classifier PeerCatError::from_api_error  *)
(* and its accessors, and RateLimitInfo::from_headers (src/src/error.rs).  *)
(*                                                                         *)
(* One behaviour is one logical call of request on a constructed client.   *)
(* The transport is the environment: every dispatch is answered by a       *)
(* response (status, headers, body) or by a transport failure.             *)
(***************************************************************************)
EXTENDS Integers, Sequences, FiniteSets, TLC

(* ---------------------------------------------------------------------- *)
(* Option<T>: None is the empty sequence, Some(x) the one-element one.     *)
(* ---------------------------------------------------------------------- *)
None == <<>>

Some(x) == <<x>>

unwrap_or(o, d) == IF o = None THEN d ELSE o[1]

(* ---------------------------------------------------------------------- *)
(* Bounds of the model.                                                    *)
(* ---------------------------------------------------------------------- *)
MaxRetriesBound == 2

NumCalls == 2

LongRetriesBound == 62

(* ---------------------------------------------------------------------- *)
(* Client configuration                                                    *)
(* ---------------------------------------------------------------------- *)
DEFAULT_MAX_RETRIES == 3

(* A string that matters character by character is the sequence of its     *)
(* pieces, every '/' a piece by itself.                                    *)
DEFAULT_BASE_URL == <<"https:", "/", "/", "api.peerc.at">>

ApiKeys == {"", "test_api_key"}

(* ---------------------------------------------------------------------- *)
(* What the transport can answer.                                          *)
(* ---------------------------------------------------------------------- *)
Statuses == {200, 304, 400, 401, 402, 403, 429, 500}

RecognizedTypes ==
    {"authentication_error", "invalid_request_error", "insufficient_credits",
     "rate_limit_error", "not_found"}

ErrorTypes == RecognizedTypes \cup {"server_error"}

(* Raw header values; "soon" stands for a value that is not a number.      *)
NoHeaders == [limit |-> None, remaining |-> None, reset |-> None, retry_after |-> None]

HeaderMaps ==
    {NoHeaders,
     [NoHeaders EXCEPT !.retry_after = Some("5")],
     [NoHeaders EXCEPT !.retry_after = Some("soon")],
     [NoHeaders EXCEPT !.limit = Some("100")]}

(* A response body.  form "envelope" is a JSON object {"error": {...}}     *)
(* whose "type" member may be missing; "value" is JSON of the shape the    *)
(* caller expects; "text" is anything else that arrives whole (not JSON,   *)
(* empty, JSON of another shape); "unreadable" is a body whose read fails  *)
(* on the wire.                                                            *)
Envelopes ==
    [form : {"envelope"}, type : {None} \cup {Some(t) : t \in ErrorTypes},
     code : {Some("err_code")}, message : {Some("Error message")},
     param : {None, Some("model")}]

PlainBody(f) == [form |-> f, type |-> None, code |-> None, message |-> None, param |-> None]

Bodies == Envelopes \cup {PlainBody(f) : f \in {"value", "text", "unreadable"}}

(* A 304 never carries a body (HTTP), so its body reads as empty.           *)
Responses ==
    {r \in [kind : {"response"}, status : Statuses, headers : HeaderMaps, body : Bodies] :
        r.status = 304 => r.body = PlainBody("text")}

TransportFailure(k) == [kind |-> k, status |-> 0, headers |-> NoHeaders, body |-> PlainBody("text")]

Failures == {TransportFailure(k) : k \in {"timeout", "connect"}}

Outcomes == Responses \cup Failures

NoOutcome == [kind |-> "none", status |-> 0, headers |-> NoHeaders, body |-> PlainBody("text")]

(* ---------------------------------------------------------------------- *)
(* RateLimitInfo::from_headers                                            *)
(* ---------------------------------------------------------------------- *)
(* str::parse of a header value: Some(number) or None.                     *)
parse(s) ==
    CASE s = "0" -> Some(0)
      [] s = "5" -> Some(5)
      [] s = "100" -> Some(100)
      [] OTHER -> None

and_then_parse(h) == IF h = None THEN None ELSE parse(h[1])

from_headers(headers) ==
    LET limit == and_then_parse(headers.limit)
        remaining == and_then_parse(headers.remaining)
        reset == and_then_parse(headers.reset)
        retry_after == and_then_parse(headers.retry_after)
    IN  IF limit # None \/ remaining # None \/ reset # None \/ retry_after # None
        THEN Some([limit |-> limit, remaining |-> remaining, reset |-> reset,
                   retry_after |-> retry_after])
        ELSE None

(* ---------------------------------------------------------------------- *)
(* PeerCatError: one record shape for all variants; a field the variant    *)
(* does not carry is None.                                                 *)
(* ---------------------------------------------------------------------- *)
PeerCatError(variant, message, code, param, status, error_type, rate_limit_info) ==
    [variant |-> variant, message |-> message, code |-> code, param |-> param,
     status |-> status, error_type |-> error_type, rate_limit_info |-> rate_limit_info]

Bare(variant) == PeerCatError(variant, None, None, None, None, None, None)

Timeout == Bare("Timeout")

Network == Bare("Network")

Json == Bare("Json")

EmptyApiKey == Bare("EmptyApiKey")

(* from_api_error without its authentication_error arm.                    *)
from_api_error_no_auth_arm(status, error_type, code, message, param, rate_limit_info) ==
    CASE error_type = "invalid_request_error" ->
            PeerCatError("InvalidRequest", Some(message), Some(code), param, None, None, None)
      [] error_type = "insufficient_credits" ->
            PeerCatError("InsufficientCredits", Some(message), Some(code), None, None, None, None)
      [] error_type = "rate_limit_error" ->
            PeerCatError("RateLimit", Some(message), Some(code), None, None, None, rate_limit_info)
      [] error_type = "not_found" ->
            PeerCatError("NotFound", Some(message), Some(code), param, None, None, None)
      [] OTHER ->
            IF status >= 500
            THEN PeerCatError("Server", Some(message), Some(code), None, Some(status), None, None)
            ELSE PeerCatError("Unknown", Some(message), Some(code), param, Some(status),
                              Some(error_type), None)

(* from_api_error whose rate_limit_error arm drops rate_limit_info.        *)
from_api_error_drops_info(status, error_type, code, message, param, rate_limit_info) ==
    CASE error_type = "authentication_error" ->
            PeerCatError("Authentication", Some(message), Some(code), param, None, None, None)
      [] error_type = "invalid_request_error" ->
            PeerCatError("InvalidRequest", Some(message), Some(code), param, None, None, None)
      [] error_type = "insufficient_credits" ->
            PeerCatError("InsufficientCredits", Some(message), Some(code), None, None, None, None)
      [] error_type = "rate_limit_error" ->
            PeerCatError("RateLimit", Some(message), Some(code), None, None, None, None)
      [] error_type = "not_found" ->
            PeerCatError("NotFound", Some(message), Some(code), param, None, None, None)
      [] OTHER ->
            IF status >= 500
            THEN PeerCatError("Server", Some(message), Some(code), None, Some(status), None, None)
            ELSE PeerCatError("Unknown", Some(message), Some(code), param, Some(status),
                              Some(error_type), None)

(* from_api_error with `status > 500` for the Server arm.                  *)
from_api_error_above_500(status, error_type, code, message, param, rate_limit_info) ==
    CASE error_type = "authentication_error" ->
            PeerCatError("Authentication", Some(message), Some(code), param, None, None, None)
      [] error_type = "invalid_request_error" ->
            PeerCatError("InvalidRequest", Some(message), Some(code), param, None, None, None)
      [] error_type = "insufficient_credits" ->
            PeerCatError("InsufficientCredits", Some(message), Some(code), None, None, None, None)
      [] error_type = "rate_limit_error" ->
            PeerCatError("RateLimit", Some(message), Some(code), None, None, None, rate_limit_info)
      [] error_type = "not_found" ->
            PeerCatError("NotFound", Some(message), Some(code), param, None, None, None)
      [] OTHER ->
            IF status > 500
            THEN PeerCatError("Server", Some(message), Some(code), None, Some(status), None, None)
            ELSE PeerCatError("Unknown", Some(message), Some(code), param, Some(status),
                              Some(error_type), None)

from_api_error(status, error_type, code, message, param, rate_limit_info) ==
    CASE error_type = "authentication_error" ->
            PeerCatError("Authentication", Some(message), Some(code), param, None, None, None)
      [] error_type = "invalid_request_error" ->
            PeerCatError("InvalidRequest", Some(message), Some(code), param, None, None, None)
      [] error_type = "insufficient_credits" ->
            PeerCatError("InsufficientCredits", Some(message), Some(code), None, None, None, None)
      [] error_type = "rate_limit_error" ->
            PeerCatError("RateLimit", Some(message), Some(code), None, None, None, rate_limit_info)
      [] error_type = "not_found" ->
            PeerCatError("NotFound", Some(message), Some(code), param, None, None, None)
      [] OTHER ->
            IF status >= 500
            THEN PeerCatError("Server", Some(message), Some(code), None, Some(status), None, None)
            ELSE PeerCatError("Unknown", Some(message), Some(code), param, Some(status),
                              Some(error_type), None)

retry_after(error) ==
    IF error.variant = "RateLimit"
    THEN IF error.rate_limit_info = None THEN None ELSE error.rate_limit_info[1].retry_after
    ELSE None

(* is_retryable written as "everything but the request errors".            *)
is_retryable_by_exclusion(error) ==
    error.variant \notin {"Authentication", "InvalidRequest", "NotFound", "Json", "Unknown"}

(* is_retryable without Timeout in its pattern.                            *)
is_retryable_no_timeout(error) == error.variant \in {"Network", "Server", "RateLimit"}

is_retryable(error) == error.variant \in {"Network", "Timeout", "Server", "RateLimit"}

(* ---------------------------------------------------------------------- *)
(* reqwest::StatusCode predicates                                         *)
(* ---------------------------------------------------------------------- *)
is_success(status) == status >= 200 /\ status <= 299

(* is_client_error starting above 400.                                     *)
is_client_error_above_400(status) == status > 400 /\ status <= 499

is_client_error(status) == status >= 400 /\ status <= 499

TOO_MANY_REQUESTS == 429

(* ---------------------------------------------------------------------- *)
(* Decoding of bodies (response.json())                                    *)
(* ---------------------------------------------------------------------- *)
(* serde of ApiErrorResponse: error.type, error.code and error.message are *)
(* required strings, error.param is optional.                              *)
decode_error_response(body) ==
    IF body.form = "envelope" /\ body.type # None /\ body.code # None /\ body.message # None
    THEN Some([error_type |-> body.type[1], code |-> body.code[1],
               message |-> body.message[1], param |-> body.param])
    ELSE None

NoResult == [value |-> None, error |-> None]

Ok(v) == [value |-> Some(v), error |-> None]

Err(e) == [value |-> None, error |-> Some(e)]

(* The 2xx branch with the decode failure swallowed.                       *)
success_result_swallowed(body) == IF body.form = "value" THEN Ok("decoded") ELSE NoResult

(* The 2xx branch with every failure of response.json() left as Network.  *)
success_result_all_network(body) ==
    IF body.form = "value" THEN Ok("decoded") ELSE Err(Network)

(* The return of the 2xx branch: the decoded value, or the decode failure  *)
(* mapped to Json, or any other failure of reading the body as Network.    *)
success_result(body) ==
    CASE body.form = "value" -> Ok("decoded")
      [] body.form = "unreadable" -> Err(Network)
      [] OTHER -> Err(Json)

(* The error of a non-2xx response with the undecodable body sent through  *)
(* the classifier as type "unknown".                                       *)
response_error_classifies_fallback(status, headers, body) ==
    LET rate_limit_info == from_headers(headers)
        error_response == decode_error_response(body)
    IN  IF error_response # None
        THEN from_api_error(status, error_response[1].error_type, error_response[1].code,
                            error_response[1].message, error_response[1].param,
                            rate_limit_info)
        ELSE from_api_error(status, "unknown", "parse_error",
                            "Failed to parse error response", None, rate_limit_info)

(* The error built from a non-2xx response.                                *)
response_error(status, headers, body) ==
    LET rate_limit_info == from_headers(headers)
        error_response == decode_error_response(body)
    IN  IF error_response # None
        THEN from_api_error(status, error_response[1].error_type, error_response[1].code,
                            error_response[1].message, error_response[1].param,
                            rate_limit_info)
        ELSE PeerCatError("Unknown", Some("Failed to parse error response"),
                          Some("parse_error"), None, Some(status), Some("unknown"), None)

(* The error recorded for a transport failure.                             *)
transport_error(o) == IF o.kind = "timeout" THEN Timeout ELSE Network

(* 2u64.pow(n) *)
RECURSIVE pow2(_)
pow2(n) == IF n = 0 THEN 1 ELSE 2 * pow2(n - 1)

min(a, b) == IF a < b THEN a ELSE b

(* ---------------------------------------------------------------------- *)
(* u64 arithmetic of the backoff.  A u64 is the set of the positions of    *)
(* its one bits; a product with a power of two moves the bits up, and the  *)
(* bits moved past the top of the word are lost (wrapping) or make the     *)
(* operation panic (overflow checks on).                                   *)
(* ---------------------------------------------------------------------- *)
U64_BITS == 64

(* The one bits of n, for 0 <= n < 2^30.                                   *)
bits(n) == {b \in 0..29 : (n \div pow2(b)) % 2 = 1}

RECURSIVE value(_)
value(S) ==
    IF S = {} THEN 0
    ELSE LET b == CHOOSE x \in S : TRUE IN pow2(b) + value(S \ {b})

(* The 1000 (ms) of the backoff, as a u64.                                 *)
BASE_DELAY == bits(1000)

(* x * 2u64.pow(a), wrapping.                                              *)
wrapping_mul_pow(x, a) == {b + a : b \in x} \cap (0..(U64_BITS - 1))

(* x * 2u64.pow(a) does not fit in a u64.                                  *)
overflows(x, a) == \E b \in x : b + a >= U64_BITS

(* std::cmp::min(x, cap) for a u64 x and cap < 2^30.                       *)
cmp_min(x, cap) == IF \E b \in x : b >= 30 THEN cap ELSE min(value(x), cap)

(* The backoff with the exponent one too high.                             *)
backoff_delay_exponent_off(a, last) ==
    LET computed == min(1000 * pow2(a + 1), 10000)
    IN  IF last # None /\ retry_after(last[1]) # None
        THEN retry_after(last[1])[1] * 1000
        ELSE computed

(* x + y on bit sets of any width.                                         *)
RECURSIVE exact_add(_, _)
exact_add(x, y) ==
    IF y = {} THEN x
    ELSE exact_add((x \cup y) \ (x \cap y), {b + 1 : b \in x \cap y})

(* x * y on bit sets of any width: the sum of the copies of x shifted by   *)
(* the one-bits of y.                                                      *)
RECURSIVE mul_bits(_, _)
mul_bits(x, y) ==
    IF y = {} THEN {}
    ELSE LET k == CHOOSE k \in y : TRUE
         IN  exact_add({b + k : b \in x}, mul_bits(x, y \ {k}))

(* x * y in u64 when the build wraps, and whether it leaves u64.           *)
wrapping_mul(x, y) == mul_bits(x, y) \cap (0..(U64_BITS - 1))

mul_overflows(x, y) == \E b \in mul_bits(x, y) : b >= U64_BITS

(* `delay = retry_after * 1000` on the u64 retry_after of the recorded     *)
(* error: the delay slept, or a panic where the build checks overflow.     *)
override_delay(retry_after_secs) ==
    LET wrapped == [panicked |-> FALSE, delay |-> wrapping_mul(retry_after_secs, BASE_DELAY)]
    IN  IF mul_overflows(retry_after_secs, BASE_DELAY)
        THEN {wrapped, [panicked |-> TRUE, delay |-> {}]}
        ELSE {wrapped}

(* The backoff that never looks at the recorded error.                     *)
backoff_delay_never_overrides(a, last) == cmp_min(wrapping_mul_pow(BASE_DELAY, a), 10000)

(* The delay slept after attempt `a` when `last` is the recorded error.    *)
backoff_delay(a, last) ==
    LET computed == cmp_min(wrapping_mul_pow(BASE_DELAY, a), 10000)
    IN  IF last # None /\ retry_after(last[1]) # None
        THEN retry_after(last[1])[1] * 1000
        ELSE computed

(* str::trim_end_matches(c): s without the run of c at its end.            *)
RECURSIVE trim_end_matches(_, _)
trim_end_matches(s, c) ==
    IF s # <<>> /\ s[Len(s)] = c
    THEN trim_end_matches(SubSeq(s, 1, Len(s) - 1), c)
    ELSE s

(* self.base_url kept as configured.                                       *)
base_url_untrimmed(configured) == unwrap_or(configured, DEFAULT_BASE_URL)

(* self.base_url as with_config sets it.                                   *)
base_url(configured) == trim_end_matches(unwrap_or(configured, DEFAULT_BASE_URL), "/")

(* format!("{}{}", self.base_url, path): the URL every attempt of the call *)
(* is sent to.                                                             *)
url(self_base_url, path) == self_base_url \o path

(* serde_json serialization of the body, as RequestBuilder::json does.     *)
to_json(b) == <<"json", b>>

(* ---------------------------------------------------------------------- *)
(* State                                                                   *)
(* ---------------------------------------------------------------------- *)
VARIABLES
    config,        \* the PeerCatConfig handed to with_config
    client,        \* what with_config returned: nothing yet, Ok(client) or Err
    max_retries,   \* self.max_retries
    pc,            \* where the call is: idle, send (loop head), await, sleep, done
    attempt,       \* the loop variable
    last_error,    \* Option<PeerCatError>
    delay,         \* the delay being slept, ms
    result,        \* what the call returned
    dispatches,    \* history: number of request.send()
    sleeps,        \* history: the delays slept, in order
    log,           \* history: per attempt <<status, raw Retry-After>>
    cur,           \* history: the outcome of this iteration's dispatch, once it is in
    fn,            \* pure functions: the function applied
    arg,           \* pure functions: its argument
    ret,           \* pure functions: None, or Some(what it returned)
    calls,         \* concurrent calls: per call, where it is and its history
    frames,        \* concurrent calls: per frame, the locals attempt and last_error
    args,          \* the arguments of the call: method, path, body
    request_url,   \* the local url of request()
    sent           \* history: the requests dispatched, in order

pure_vars == <<fn, arg, ret>>

conc_vars == <<calls, frames>>

req_vars == <<args, request_url, sent>>

vars == <<config, client, max_retries, pc, attempt, last_error, delay, result, dispatches,
          sleeps, log, cur, pure_vars, conc_vars, req_vars>>

(* PeerCatConfig::new(api_key).with_max_retries(n); the client does not    *)
(* exist yet, so self.max_retries holds nothing of the program.            *)
Configs == [api_key : ApiKeys, max_retries : {Some(n) : n \in 0..MaxRetriesBound},
            base_url : {None}]

(* One call: get("/h").                                                    *)
DefaultArgs == [method |-> "GET", path |-> <<"/", "h">>, body |-> None]

(* No request built yet.                                                   *)
NoRequests == request_url = <<>> /\ sent = <<>>

Init ==
    /\ config \in Configs
    /\ client = NoResult
    /\ max_retries = 0
    /\ pc = "new"
    /\ attempt = 0
    /\ last_error = None
    /\ delay = 0
    /\ result = NoResult
    /\ dispatches = 0
    /\ sleeps = <<>>
    /\ log = <<>>
    /\ cur = NoOutcome
    /\ fn = "none" /\ arg = None /\ ret = None
    /\ calls = <<>> /\ frames = <<>>
    /\ args = DefaultArgs /\ NoRequests

(* The api_key check of with_config without its early return.              *)
is_empty_unchecked(api_key) == FALSE

(* String::is_empty *)
is_empty(api_key) == api_key = ""

(* PeerCat::with_config (PeerCat::new is with_config of PeerCatConfig::new) *)
with_config ==
    /\ pc = "new"
    /\ IF is_empty(config.api_key)
       THEN /\ client' = Err(EmptyApiKey)
            /\ pc' = "rejected"
            /\ UNCHANGED max_retries
       ELSE /\ max_retries' = unwrap_or(config.max_retries, DEFAULT_MAX_RETRIES)
            /\ client' = Ok([api_key |-> config.api_key,
                             base_url |-> base_url(config.base_url),
                             max_retries |-> unwrap_or(config.max_retries, DEFAULT_MAX_RETRIES)])
            /\ pc' = "idle"
    /\ UNCHANGED <<pure_vars, conc_vars, req_vars, config, attempt, last_error, delay, result,
                   dispatches, sleeps, log, cur>>

(* request(): entry, up to the head of the loop.                           *)
request ==
    /\ pc = "idle"
    /\ pc' = "send"
    /\ request_url' = url(client.value[1].base_url, args.path)
    /\ last_error' = None
    /\ attempt' = 0
    /\ UNCHANGED <<args, sent>>
    /\ UNCHANGED <<pure_vars, conc_vars, config, client, max_retries, delay, result, dispatches, sleeps, log, cur>>

(* The loop over 0..self.max_retries, the upper end excluded.              *)
in_range_exclusive(a, n) == a < n

(* for attempt in 0..=self.max_retries                                     *)
in_range(a, n) == a <= n

(* return handing out the recorded error, when there is one, instead of r. *)
Return_prefers_error(r) ==
    /\ result' = IF last_error # None THEN Err(last_error[1]) ELSE r
    /\ pc' = "done"
    /\ last_error' = None
    /\ delay' = 0

(* return: the caller gets r; the locals of the frame are dropped.         *)
Return(r) ==
    /\ result' = r
    /\ pc' = "done"
    /\ last_error' = None
    /\ delay' = 0

(* The head of the loop: the next iteration builds the request and        *)
(* dispatches it; when the range is exhausted the function returns         *)
(* Err(last_error.unwrap_or(Timeout)).                                     *)
(* The request of a retry built without the body.                          *)
build_request_drops_body_on_retry(method, u, api_key, body) ==
    [method |-> method,
     url |-> u,
     headers |-> <<<<"Authorization", <<"Bearer ", api_key>>>>,
                   <<"Content-Type", "application/json">>>>,
     body |-> IF body # None /\ attempt = 0 THEN Some(to_json(body[1])) ELSE None]

(* The request of one attempt: method and url, the two headers, and the    *)
(* body as JSON when there is one.                                         *)
build_request(method, u, api_key, body) ==
    [method |-> method,
     url |-> u,
     headers |-> <<<<"Authorization", <<"Bearer ", api_key>>>>,
                   <<"Content-Type", "application/json">>>>,
     body |-> IF body # None THEN Some(to_json(body[1])) ELSE None]

LoopHead ==
    /\ pc = "send"
    /\ IF in_range(attempt, max_retries)
       THEN /\ sent' = Append(sent, build_request(args.method, request_url,
                                                  client.value[1].api_key, args.body))
            /\ dispatches' = dispatches + 1
            /\ cur' = NoOutcome
            /\ pc' = "await"
            /\ UNCHANGED <<last_error, delay, result>>
       ELSE /\ Return(Err(unwrap_or(last_error, Timeout)))
            /\ UNCHANGED <<dispatches, cur, sent>>
    /\ UNCHANGED <<args, request_url>>
    /\ UNCHANGED <<pure_vars, conc_vars, config, client, max_retries, attempt, sleeps, log>>

(* The backoff guarded by attempt <= self.max_retries.                     *)
sleeps_before_retry_inclusive(a, n) == a <= n

(* The backoff never slept.                                                *)
sleeps_before_retry_never(a, n) == FALSE

(* if attempt < self.max_retries *)
sleeps_before_retry(a, n) == a < n

(* The iteration filling an empty rate_limit_info from the error before.  *)
EndOfIteration_merges(last) ==
    /\ last_error' = IF last_error # None /\ last[1].rate_limit_info = None
                     THEN Some([last[1] EXCEPT !.rate_limit_info = last_error[1].rate_limit_info])
                     ELSE last
    /\ result' = result
    /\ IF sleeps_before_retry(attempt, max_retries)
       THEN \/ /\ delay' = backoff_delay(attempt, last)
               /\ pc' = "sleep"
               /\ attempt' = attempt
            \/ /\ overflows(BASE_DELAY, attempt)
               /\ delay' = delay
               /\ pc' = "panicked"
               /\ attempt' = attempt
       ELSE /\ delay' = delay
            /\ pc' = "send"
            /\ attempt' = attempt + 1

(* The iteration recording an error only when none is recorded yet.       *)
EndOfIteration_keeps_first(last) ==
    /\ last_error' = IF last_error # None THEN last_error ELSE last
    /\ result' = result
    /\ IF sleeps_before_retry(attempt, max_retries)
       THEN \/ /\ delay' = backoff_delay(attempt, last)
               /\ pc' = "sleep"
               /\ attempt' = attempt
            \/ /\ overflows(BASE_DELAY, attempt)
               /\ delay' = delay
               /\ pc' = "panicked"
               /\ attempt' = attempt
       ELSE /\ delay' = delay
            /\ pc' = "send"
            /\ attempt' = attempt + 1

(* The iteration leaving last_error as it was.                            *)
EndOfIteration_unrecorded(last) ==
    /\ last_error' = last_error
    /\ result' = result
    /\ IF sleeps_before_retry(attempt, max_retries)
       THEN \/ /\ delay' = backoff_delay(attempt, last)
               /\ pc' = "sleep"
               /\ attempt' = attempt
            \/ /\ overflows(BASE_DELAY, attempt)
               /\ delay' = delay
               /\ pc' = "panicked"
               /\ attempt' = attempt
       ELSE /\ delay' = delay
            /\ pc' = "send"
            /\ attempt' = attempt + 1

(* The iteration taking the delay from the error recorded before when the  *)
(* new one carries no retry_after.                                         *)
EndOfIteration_sticky_retry_after(last) ==
    /\ last_error' = last
    /\ result' = result
    /\ IF sleeps_before_retry(attempt, max_retries)
       THEN \/ /\ delay' = backoff_delay(attempt,
                                         IF retry_after(last[1]) = None /\ last_error # None
                                         THEN last_error ELSE last)
               /\ pc' = "sleep"
               /\ attempt' = attempt
            \/ /\ overflows(BASE_DELAY, attempt)
               /\ delay' = delay
               /\ pc' = "panicked"
               /\ attempt' = attempt
       ELSE /\ delay' = delay
            /\ pc' = "send"
            /\ attempt' = attempt + 1

(* The iteration that retries no POST: the error is returned at once.      *)
EndOfIteration_post_not_retried(last) ==
    IF args.method = "POST"
    THEN Return(Err(last[1])) /\ attempt' = attempt
    ELSE /\ last_error' = last
         /\ result' = result
         /\ IF sleeps_before_retry(attempt, max_retries)
            THEN \/ /\ delay' = backoff_delay(attempt, last)
                    /\ pc' = "sleep"
                    /\ attempt' = attempt
                 \/ /\ overflows(BASE_DELAY, attempt)
                    /\ delay' = delay
                    /\ pc' = "panicked"
                    /\ attempt' = attempt
            ELSE /\ delay' = delay
                 /\ pc' = "send"
                 /\ attempt' = attempt + 1

(* The end of an iteration that did not return: `last` is last_error as    *)
(* the iteration left it.  Either the backoff sleep starts, or the loop    *)
(* steps to its next value at once.  When 1000 * 2u64.pow(attempt) does    *)
(* not fit in a u64 the build decides: the arithmetic wraps, or the call   *)
(* panics and never returns.                                               *)
EndOfIteration(last) ==
    /\ last_error' = last
    /\ result' = result
    /\ IF sleeps_before_retry(attempt, max_retries)
       THEN \/ /\ delay' = backoff_delay(attempt, last)
               /\ pc' = "sleep"
               /\ attempt' = attempt
            \/ /\ overflows(BASE_DELAY, attempt)
               /\ delay' = delay
               /\ pc' = "panicked"
               /\ attempt' = attempt
       ELSE /\ delay' = delay
            /\ pc' = "send"
            /\ attempt' = attempt + 1

(* The 2xx branch recording a failure to read the body and going on.       *)
Respond_retries_unreadable(o) ==
    /\ pc = "await"
    /\ o \in Responses
    /\ cur' = o
    /\ log' = Append(log, <<o.status, o.headers.retry_after>>)
    /\ IF is_success(o.status)
       THEN IF o.body.form = "unreadable"
            THEN EndOfIteration(Some(Network))
            ELSE Return(success_result(o.body)) /\ attempt' = attempt
       ELSE LET error == response_error(o.status, o.headers, o.body)
            IN  IF is_client_error(o.status) /\ o.status # TOO_MANY_REQUESTS
                THEN Return(Err(error)) /\ attempt' = attempt
                ELSE EndOfIteration(Some(error))
    /\ UNCHANGED <<pure_vars, conc_vars, req_vars, config, client, max_retries, dispatches, sleeps>>

(* request.send().await yields Ok(response).                               *)
Respond(o) ==
    /\ pc = "await"
    /\ o \in Responses
    /\ cur' = o
    /\ log' = Append(log, <<o.status, o.headers.retry_after>>)
    /\ IF is_success(o.status)
       THEN Return(success_result(o.body)) /\ attempt' = attempt
       ELSE LET error == response_error(o.status, o.headers, o.body)
            IN  IF is_client_error(o.status) /\ o.status # TOO_MANY_REQUESTS
                THEN Return(Err(error)) /\ attempt' = attempt
                ELSE EndOfIteration(Some(error))
    /\ UNCHANGED <<pure_vars, conc_vars, req_vars, config, client, max_retries, dispatches, sleeps>>

(* request.send().await yields Err(e).                                     *)
Fail(o) ==
    /\ pc = "await"
    /\ o \in Failures
    /\ cur' = o
    /\ log' = Append(log, <<o.status, None>>)
    /\ EndOfIteration(Some(transport_error(o)))
    /\ UNCHANGED <<pure_vars, conc_vars, req_vars, config, client, max_retries, dispatches, sleeps>>

(* tokio::time::sleep completes; the loop goes to its next iteration.      *)
Wake ==
    /\ pc = "sleep"
    /\ sleeps' = Append(sleeps, delay)
    /\ attempt' = attempt + 1
    /\ pc' = "send"
    /\ UNCHANGED <<pure_vars, conc_vars, req_vars, config, client, max_retries, last_error, delay, result, dispatches, log, cur>>

Next ==
    \/ with_config
    \/ request
    \/ LoopHead
    \/ \E o \in Responses : Respond(o)
    \/ \E o \in Failures : Fail(o)
    \/ Wake

Spec == Init /\ [][Next]_vars

TypeOK ==
    /\ max_retries \in 0..(MaxRetriesBound + 1)
    /\ pc \in {"new", "rejected", "idle", "send", "await", "sleep", "done", "panicked"}
    /\ attempt \in 0..(max_retries + 1)
    /\ dispatches \in 0..(max_retries + 1)

(* ====================================================================== *)
(* One call on a client with a large max_retries whose every dispatch      *)
(* ends the same way, in a timeout or in a 500 with a body that is not an  *)
(* error envelope: the loop reaches the attempt indices where the u64      *)
(* arithmetic of the backoff matters.                                      *)
(* ====================================================================== *)
LongResponse ==
    [kind |-> "response", status |-> 500, headers |-> NoHeaders, body |-> PlainBody("text")]

(* Every dispatch so far was answered with status st (0: it failed).       *)
LongAnswered(st) == \A i \in 1..Len(log) : log[i][1] = st

LongInit ==
    /\ config = [api_key |-> "test_api_key", max_retries |-> Some(LongRetriesBound),
                 base_url |-> None]
    /\ client = Ok([api_key |-> "test_api_key", max_retries |-> LongRetriesBound,
                    base_url |-> base_url(None)])
    /\ max_retries = LongRetriesBound
    /\ pc = "idle"
    /\ attempt = 0
    /\ last_error = None
    /\ delay = 0
    /\ result = NoResult
    /\ dispatches = 0
    /\ sleeps = <<>>
    /\ log = <<>>
    /\ cur = NoOutcome
    /\ fn = "none" /\ arg = None /\ ret = None
    /\ calls = <<>> /\ frames = <<>>
    /\ args = DefaultArgs /\ NoRequests

LongNext ==
    \/ request
    \/ LoopHead
    \/ LongAnswered(0) /\ Fail(TransportFailure("timeout"))
    \/ LongAnswered(500) /\ Respond(LongResponse)
    \/ Wake

SpecLong == LongInit /\ [][LongNext]_vars

(* ====================================================================== *)
(* The pure functions, each applied once to an argument drawn from a       *)
(* bounded set.                                                            *)
(* ====================================================================== *)
FnMessages == {"Error message", "Not enough"}

FnCodes == {"err_code", "insufficient_balance"}

FnParams == {None, Some("model")}

(* u16, with the ends of its range and of the status classes.              *)
FnStatuses == {0, 400, 429, 499, 500, 503, 65535}

FnErrorTypes == ErrorTypes \cup {"", "unknown"}

FnRateLimitInfos ==
    {None,
     Some([limit |-> None, remaining |-> None, reset |-> None, retry_after |-> Some(5)]),
     Some([limit |-> Some(100), remaining |-> Some(0), reset |-> None, retry_after |-> None])}

(* The values of PeerCatError, variant by variant with the fields it has.  *)
FnErrors ==
    {PeerCatError(v, Some(m), Some(c), p, None, None, None) :
        v \in {"Authentication", "InvalidRequest", "NotFound"},
        m \in FnMessages, c \in FnCodes, p \in FnParams}
    \cup {PeerCatError("InsufficientCredits", Some(m), Some(c), None, None, None, None) :
        m \in FnMessages, c \in FnCodes}
    \cup {PeerCatError("RateLimit", Some(m), Some(c), None, None, None, r) :
        m \in FnMessages, c \in FnCodes, r \in FnRateLimitInfos}
    \cup {PeerCatError("Server", Some(m), Some(c), None, Some(st), None, None) :
        m \in FnMessages, c \in FnCodes, st \in {404, 500, 503}}
    \cup {PeerCatError("Unknown", Some(m), Some(c), p, Some(st), Some(t), None) :
        m \in FnMessages, c \in FnCodes, p \in FnParams, st \in {404, 500, 503},
        t \in {"unknown", "server_error"}}
    \cup {Network, Json, Timeout, EmptyApiKey}

FnApiErrorArgs ==
    [status : FnStatuses, error_type : FnErrorTypes, code : FnCodes,
     message : FnMessages, param : FnParams, rate_limit_info : FnRateLimitInfos]

(* Header maps with values that parse and values that do not.              *)
FnHeaderMaps ==
    [limit : {None, Some("100"), Some("soon")}, remaining : {None, Some("5")},
     reset : {None, Some("0")}, retry_after : {None, Some("5"), Some("soon")}]

(* PeerCatError::code without its Server arm.                              *)
code_without_server(error) ==
    IF error.variant \in {"Authentication", "InvalidRequest", "InsufficientCredits",
                          "RateLimit", "NotFound", "Unknown"}
    THEN error.code
    ELSE None

(* PeerCatError::code *)
code(error) ==
    IF error.variant \in {"Authentication", "InvalidRequest", "InsufficientCredits",
                          "RateLimit", "NotFound", "Server", "Unknown"}
    THEN error.code
    ELSE None

(* PeerCatError::param *)
param(error) ==
    IF error.variant \in {"Authentication", "InvalidRequest", "NotFound", "Unknown"}
    THEN error.param
    ELSE None

(* Base URLs and paths over 'h' (any character but '/') and '/'.           *)
FnStrings == UNION {[1..n -> {"h", "/"}] : n \in 0..3}

FnUrlArgs == [base_url : {None} \cup {Some(b) : b \in FnStrings},
              path : {<<>>, <<"h">>, <<"/", "h">>}]

(* Values of Retry-After that parse as u64: 0, small ones, 2^54 (the       *)
(* largest power of two whose product with 1000 fits), 2^55, 2^63 and      *)
(* u64::MAX.                                                               *)
FnRetryAfters == {bits(0), bits(1), bits(5), bits(11), bits(3600), {54}, {55}, {63},
                  0..(U64_BITS - 1)}

FnInit ==
    /\ config = [api_key |-> "test_api_key", max_retries |-> Some(0), base_url |-> None]
    /\ client = NoResult
    /\ max_retries = 0
    /\ pc = "pure"
    /\ attempt = 0
    /\ last_error = None
    /\ delay = 0
    /\ result = NoResult
    /\ dispatches = 0
    /\ sleeps = <<>>
    /\ log = <<>>
    /\ cur = NoOutcome
    /\ calls = <<>> /\ frames = <<>>
    /\ args = DefaultArgs /\ NoRequests
    /\ ret = None
    /\ \/ fn = "is_retryable" /\ arg \in FnErrors
       \/ fn = "from_api_error" /\ arg \in FnApiErrorArgs
       \/ fn = "from_headers" /\ arg \in FnHeaderMaps
       \/ fn = "code" /\ arg \in FnErrors
       \/ fn = "param" /\ arg \in FnErrors
       \/ fn = "url" /\ arg \in FnUrlArgs
       \/ fn = "override_delay" /\ arg \in FnRetryAfters

FnUnchanged ==
    UNCHANGED <<fn, arg, conc_vars, req_vars, config, client, max_retries, pc, attempt, last_error,
                delay, result, dispatches, sleeps, log, cur>>

Apply_is_retryable ==
    /\ fn = "is_retryable" /\ ret = None
    /\ ret' = Some(is_retryable(arg))
    /\ FnUnchanged

Apply_from_api_error ==
    /\ fn = "from_api_error" /\ ret = None
    /\ ret' = Some(from_api_error(arg.status, arg.error_type, arg.code, arg.message,
                                  arg.param, arg.rate_limit_info))
    /\ FnUnchanged

Apply_from_headers ==
    /\ fn = "from_headers" /\ ret = None
    /\ ret' = Some(from_headers(arg))
    /\ FnUnchanged

Apply_code ==
    /\ fn = "code" /\ ret = None
    /\ ret' = Some(code(arg))
    /\ FnUnchanged

Apply_param ==
    /\ fn = "param" /\ ret = None
    /\ ret' = Some(param(arg))
    /\ FnUnchanged

(* The client is built from the configured base URL, then request forms    *)
(* the URL of the call.                                                    *)
Apply_url ==
    /\ fn = "url" /\ ret = None
    /\ ret' = Some(url(base_url(arg.base_url), arg.path))
    /\ FnUnchanged

Apply_override_delay ==
    /\ fn = "override_delay" /\ ret = None
    /\ \E r \in override_delay(arg) : ret' = Some(r)
    /\ FnUnchanged

FnNext ==
    \/ Apply_is_retryable
    \/ Apply_from_api_error
    \/ Apply_from_headers
    \/ Apply_code
    \/ Apply_param
    \/ Apply_url
    \/ Apply_override_delay

SpecFn == FnInit /\ [][FnNext]_vars

(* ====================================================================== *)
(* Several calls of request in flight at once on one client.  The client   *)
(* (&self) is shared and immutable; attempt and last_error are locals of   *)
(* each call's own frame.  The calls interleave at their two await points. *)
(* ====================================================================== *)
CallIds == 1..NumCalls

(* What the transport answers here: one outcome of each path of the loop.  *)
ConcOutcomes ==
    {[kind |-> "response", status |-> 200, headers |-> NoHeaders, body |-> PlainBody("value")],
     [kind |-> "response", status |-> 403, headers |-> NoHeaders,
      body |-> [form |-> "envelope", type |-> Some("authentication_error"),
                code |-> Some("err_code"), message |-> Some("Error message"),
                param |-> None]],
     [kind |-> "response", status |-> 429,
      headers |-> [NoHeaders EXCEPT !.retry_after = Some("5")],
      body |-> [form |-> "envelope", type |-> Some("rate_limit_error"),
                code |-> Some("err_code"), message |-> Some("Error message"),
                param |-> None]],
     [kind |-> "response", status |-> 500, headers |-> NoHeaders, body |-> PlainBody("text")],
     TransportFailure("timeout")}

ConcRetries == {0, 1}

IdleCall ==
    [pc |-> "idle", delay |-> 0, result |-> NoResult, dispatches |-> 0, sleeps |-> <<>>,
     outs |-> <<>>, overlapped |-> FALSE, cancel_requested |-> FALSE, beside_cancel |-> FALSE]

NoFrame == [attempt |-> 0, last_error |-> None]

ConcInit ==
    /\ \E n \in ConcRetries :
        /\ config = [api_key |-> "test_api_key", max_retries |-> Some(n), base_url |-> None]
        /\ client = Ok([api_key |-> "test_api_key", max_retries |-> n,
                        base_url |-> base_url(None)])
        /\ max_retries = n
    /\ pc = "conc"
    /\ attempt = 0
    /\ last_error = None
    /\ delay = 0
    /\ result = NoResult
    /\ dispatches = 0
    /\ sleeps = <<>>
    /\ log = <<>>
    /\ cur = NoOutcome
    /\ fn = "none" /\ arg = None /\ ret = None
    /\ calls = [c \in CallIds |-> IdleCall]
    /\ frames = [c \in CallIds |-> NoFrame]
    /\ args = DefaultArgs /\ NoRequests

(* All the calls keeping their locals in one slot.                         *)
slot_shared(c) == 1

(* The frame that holds the locals of call c: its own.                     *)
slot(c) == c

InFlight(call) == call.pc \in {"send", "await", "sleep"}

(* One step of call c: it moves to `call` with its locals as `frame`.      *)
(* history: every other call in flight has now overlapped with a step of   *)
(* another call.                                                           *)
Step(c, call, frame) ==
    /\ calls' = [d \in CallIds |->
                    IF d = c THEN [call EXCEPT !.overlapped =
                                       @ \/ \E e \in CallIds \ {c} : InFlight(calls[e])]
                    ELSE IF InFlight(calls[d]) THEN [calls[d] EXCEPT !.overlapped = TRUE]
                    ELSE calls[d]]
    /\ frames' = [frames EXCEPT ![slot(c)] = frame]
    /\ UNCHANGED <<pure_vars, req_vars, config, client, max_retries, pc, attempt, last_error, delay,
                   result, dispatches, sleeps, log, cur>>

CReturn(c, call, r) ==
    Step(c, [call EXCEPT !.pc = "done", !.result = r, !.delay = 0],
         [frames[slot(c)] EXCEPT !.last_error = None])

CRequest(c) ==
    /\ calls[c].pc = "idle"
    /\ Step(c, [calls[c] EXCEPT !.pc = "send"], [attempt |-> 0, last_error |-> None])

CLoopHead(c) ==
    /\ calls[c].pc = "send"
    /\ IF in_range(frames[slot(c)].attempt, max_retries)
       THEN Step(c, [calls[c] EXCEPT !.pc = "await", !.dispatches = @ + 1], frames[slot(c)])
       ELSE CReturn(c, calls[c], Err(unwrap_or(frames[slot(c)].last_error, Timeout)))

CEndOfIteration(c, call, error) ==
    LET frame == frames[slot(c)]
    IN  IF sleeps_before_retry(frame.attempt, max_retries)
        THEN Step(c, [call EXCEPT !.pc = "sleep",
                                  !.delay = backoff_delay(frame.attempt, Some(error))],
                  [frame EXCEPT !.last_error = Some(error)])
        ELSE Step(c, [call EXCEPT !.pc = "send"],
                  [attempt |-> frame.attempt + 1, last_error |-> Some(error)])

CRespond(c, o) ==
    /\ calls[c].pc = "await"
    /\ o \in ConcOutcomes /\ o.kind = "response"
    /\ LET call == [calls[c] EXCEPT !.outs = Append(@, o)]
       IN  IF is_success(o.status)
           THEN CReturn(c, call, success_result(o.body))
           ELSE LET error == response_error(o.status, o.headers, o.body)
                IN  IF is_client_error(o.status) /\ o.status # TOO_MANY_REQUESTS
                    THEN CReturn(c, call, Err(error))
                    ELSE CEndOfIteration(c, call, error)

CFail(c, o) ==
    /\ calls[c].pc = "await"
    /\ o \in ConcOutcomes /\ o.kind # "response"
    /\ CEndOfIteration(c, [calls[c] EXCEPT !.outs = Append(@, o)], transport_error(o))

CWake(c) ==
    /\ calls[c].pc = "sleep"
    /\ Step(c, [calls[c] EXCEPT !.pc = "send", !.sleeps = Append(@, calls[c].delay)],
            [frames[slot(c)] EXCEPT !.attempt = @ + 1])

ConcNext ==
    \E c \in CallIds :
        \/ CRequest(c)
        \/ CLoopHead(c)
        \/ \E o \in ConcOutcomes : CRespond(c, o)
        \/ \E o \in ConcOutcomes : CFail(c, o)
        \/ CWake(c)

SpecConc == ConcInit /\ [][ConcNext]_vars

(* ====================================================================== *)
(* Cancellation: the caller drops the future of a call while it is         *)
(* suspended at request.send().await or at tokio::time::sleep(..).await.   *)
(* Dropping it drops the locals of its frame; the call never resumes.      *)
(* ====================================================================== *)
(* One cancellation tearing down every call in flight on the client.       *)
dropped_all(c) == CallIds

(* The calls whose future is dropped when the future of call c is: c.      *)
dropped(c) == {c}

(* history: cancel_requested marks the call whose future the caller        *)
(* dropped, beside_cancel the calls in flight at that moment.              *)
CCancel(c) ==
    /\ calls[c].pc \in {"await", "sleep"}
    /\ calls' = [d \in CallIds |->
                    IF d \in dropped(c) /\ InFlight(calls[d])
                    THEN [calls[d] EXCEPT !.pc = "cancelled",
                                          !.cancel_requested = (d = c),
                                          !.beside_cancel = @ \/ (d # c)]
                    ELSE IF InFlight(calls[d])
                    THEN [calls[d] EXCEPT !.overlapped = TRUE, !.beside_cancel = TRUE]
                    ELSE calls[d]]
    /\ frames' = [frames EXCEPT ![slot(c)] = NoFrame]
    /\ UNCHANGED <<pure_vars, req_vars, config, client, max_retries, pc, attempt, last_error, delay,
                   result, dispatches, sleeps, log, cur>>

(* What call c can do next by itself.                                      *)
CStep(c) ==
    \/ CLoopHead(c)
    \/ \E o \in ConcOutcomes : CRespond(c, o)
    \/ \E o \in ConcOutcomes : CFail(c, o)
    \/ CWake(c)

CancelNext ==
    \/ ConcNext
    \/ \E c \in CallIds : CCancel(c)

SpecCancel == ConcInit /\ [][CancelNext]_vars

(* request run by itself on the outcomes `outs`, from the head of the loop *)
(* at attempt a with last_error `last` and the delays `slept` behind it.   *)
RECURSIVE alone(_, _, _, _, _)
alone(n, outs, a, last, slept) ==
    IF ~in_range(a, n)
    THEN [result |-> Err(unwrap_or(last, Timeout)), sleeps |-> slept, dispatches |-> a]
    ELSE IF outs = <<>>
    THEN [result |-> NoResult, sleeps |-> slept, dispatches |-> a + 1]
    ELSE LET o == Head(outs)
             returns == o.kind = "response"
                        /\ (is_success(o.status)
                            \/ (is_client_error(o.status) /\ o.status # TOO_MANY_REQUESTS))
             error == IF o.kind = "response"
                      THEN response_error(o.status, o.headers, o.body)
                      ELSE transport_error(o)
         IN  IF returns
             THEN [result |-> IF is_success(o.status) THEN success_result(o.body)
                              ELSE Err(error),
                   sleeps |-> slept, dispatches |-> a + 1]
             ELSE alone(n, Tail(outs), a + 1, Some(error),
                        IF sleeps_before_retry(a, n)
                        THEN Append(slept, backoff_delay(a, Some(error)))
                        ELSE slept)

(* ====================================================================== *)
(* Properties                                                              *)
(* ====================================================================== *)
(* A response is in hand: this iteration's dispatch was answered.          *)
ResponseInHand == cur.kind = "response"

(* The error the latest answered attempt produced: the returned one once   *)
(* the call is done, the recorded one while the loop goes on.              *)
Produced == IF pc = "done" THEN result.error ELSE last_error

(* Status classes, by their numeric ranges.                                *)
Is2xx(st) == st \in 200..299

IsTerminal4xx(st) == st \in 400..499 /\ st # 429

(* A log entry of an attempt the loop goes on from: a transport failure    *)
(* (status 0) or a response that is neither 2xx nor a non-429 4xx.         *)
RetriedOutcome(entry) == ~Is2xx(entry[1]) /\ ~IsTerminal4xx(entry[1])

(* ---------------------------------------------------------------------- *)
(* C1: a call that has returned produced exactly one of a decoded value    *)
(* and an error, never both and never neither; before it returns it has    *)
(* produced nothing.                                                       *)
C1_ExactlyOneOutcome ==
    IF pc = "done"
    THEN (result.value # None) # (result.error # None)
    ELSE result = NoResult

C1_Witness ==
    /\ pc = "done"
    /\ max_retries = 2
    /\ dispatches = 3
    /\ Is2xx(cur.status)
    /\ cur.body.form = "text"
    /\ result.error = Some(Json)

(* ---------------------------------------------------------------------- *)
(* C2: for a non-2xx response whose body decodes as an error envelope,     *)
(* with a retry left (attempt < max_retries), the executor goes on to      *)
(* retry exactly when is_retryable() of the classified error is true.      *)
C2_RetryIffIsRetryable ==
    (/\ ResponseInHand
     /\ ~Is2xx(cur.status)
     /\ decode_error_response(cur.body) # None
     /\ Len(log) <= max_retries)
    => ((pc # "done") <=> is_retryable(Produced[1]))

(* ---------------------------------------------------------------------- *)
(* C3: a response with a status in 400..=499 other than 429, at any        *)
(* attempt index, makes the call return the error built from it at once:   *)
(* no sleep follows it, no further dispatch, nothing more can happen.      *)
C3_ClientErrorReturnsAtOnce ==
    (ResponseInHand /\ IsTerminal4xx(cur.status))
    => /\ pc = "done"
       /\ result = Err(response_error(cur.status, cur.headers, cur.body))
       /\ dispatches = Len(log)
       /\ Len(sleeps) = Len(log) - 1
       /\ ~ENABLED Next

C3_Witness ==
    /\ pc = "done"
    /\ max_retries = 2
    /\ Len(log) = 2
    /\ log[1][1] = 500
    /\ cur.status = 403

(* ---------------------------------------------------------------------- *)
(* C4: a call dispatches at least once and at most max_retries + 1 times;  *)
(* it dispatches max_retries + 1 times exactly when each of the attempts   *)
(* 0 .. max_retries - 1 ended in a transport failure or in a response that *)
(* is neither 2xx nor a non-429 4xx (the attempt of index max_retries may  *)
(* end any way).                                                           *)
C4_DispatchCount ==
    /\ dispatches <= max_retries + 1
    /\ pc = "done" =>
        /\ dispatches >= 1
        /\ dispatches = Len(log)
        /\ (dispatches = max_retries + 1)
            <=> (\A i \in 1..max_retries : i <= Len(log) /\ RetriedOutcome(log[i]))

C4_Witness ==
    /\ pc = "done"
    /\ max_retries = 2
    /\ dispatches = 3
    /\ log[1][1] = 0
    /\ log[2][1] = 429
    /\ log[3][1] = 200

(* ---------------------------------------------------------------------- *)
(* C5: with max_retries = 0 the call dispatches exactly once and never     *)
(* sleeps, whatever the attempt's outcome.                                 *)
C5_ZeroRetriesOneAttempt ==
    max_retries = 0
    => /\ pc # "sleep"
       /\ sleeps = <<>>
       /\ dispatches <= 1
       /\ pc = "done" => (dispatches = 1 /\ Len(log) = 1)

C5_Witness ==
    /\ max_retries = 0
    /\ pc = "done"
    /\ cur.status = 429
    /\ cur.headers.retry_after = Some("5")
    /\ result.error # None
    /\ result.error[1].variant = "RateLimit"

(* ---------------------------------------------------------------------- *)
(* C6: with max_retries = 2 and every attempt answered by status 500       *)
(* without Retry-After, the call makes exactly 3 attempts, sleeps 1000 ms  *)
(* after the first and 2000 ms after the second, and returns the error     *)
(* after the third without sleeping.                                       *)
AllAnswered500 == \A i \in 1..Len(log) : log[i] = <<500, None>>

C6_ThreeAttemptsOn500 ==
    (max_retries = 2 /\ AllAnswered500)
    => /\ sleeps \in {<<>>, <<1000>>, <<1000, 2000>>}
       /\ pc = "sleep" => /\ Len(log) \in {1, 2}
                          /\ delay = (IF Len(log) = 1 THEN 1000 ELSE 2000)
                          /\ Len(sleeps) = Len(log) - 1
       /\ pc = "done" => /\ dispatches = 3
                         /\ Len(log) = 3
                         /\ sleeps = <<1000, 2000>>
                         /\ result.value = None
                         /\ result.error # None

C6_Witness ==
    /\ max_retries = 2
    /\ pc = "done"
    /\ log = << <<500, None>>, <<500, None>>, <<500, None>> >>
    /\ sleeps = <<1000, 2000>>

(* ---------------------------------------------------------------------- *)
(* C7 as stated: for status 500 with error_type absent from the body or    *)
(* not one of the five recognized types, the error produced is Server      *)
(* with status 500 and is_retryable() is true.                             *)
C7_Original ==
    (/\ ResponseInHand
     /\ cur.status = 500
     /\ (cur.body.type = None \/ cur.body.type[1] \notin RecognizedTypes))
    => /\ Produced # None
       /\ Produced[1].variant = "Server"
       /\ Produced[1].status = Some(500)
       /\ is_retryable(Produced[1])

(* C7 amended: for status 500 with a body that decodes as the envelope and *)
(* an error_type that is not one of the five recognized types, the error   *)
(* produced is Server with status 500 and is_retryable() is true; when     *)
(* error_type is absent the body does not decode as the envelope and the   *)
(* error is Unknown with status 500 and code "parse_error", for which      *)
(* is_retryable() is false.                                                *)
C7_Server500 ==
    (ResponseInHand /\ cur.status = 500)
    => /\ Produced # None
       /\ (cur.body.form = "envelope" /\ cur.body.type # None
             /\ cur.body.type[1] \notin RecognizedTypes)
          => /\ Produced[1].variant = "Server"
             /\ Produced[1].status = Some(500)
             /\ is_retryable(Produced[1])
       /\ cur.body.type = None
          => /\ Produced[1].variant = "Unknown"
             /\ Produced[1].status = Some(500)
             /\ Produced[1].code = Some("parse_error")
             /\ ~is_retryable(Produced[1])

C7_Witness ==
    /\ ResponseInHand
    /\ cur.status = 500
    /\ cur.body.form = "envelope"
    /\ cur.body.type = Some("server_error")
    /\ Produced # None
    /\ Produced[1].variant = "Server"

(* ---------------------------------------------------------------------- *)
(* C8: a response with status 429 and Retry-After: 5, when a further       *)
(* attempt remains, is followed by a sleep of exactly 5000 ms, at every    *)
(* attempt index and whatever the body is.                                 *)
C8_RetryAfterOverrides ==
    (/\ ResponseInHand
     /\ cur.status = 429
     /\ cur.headers.retry_after = Some("5")
     /\ Len(log) <= max_retries)
    => \/ pc = "sleep" /\ delay = 5000
       \/ pc = "send" /\ Len(sleeps) = Len(log) /\ sleeps[Len(sleeps)] = 5000

(* ---------------------------------------------------------------------- *)
(* C9: a first response with status 401 or 403 and error_type              *)
(* "authentication_error" makes the call return an Authentication error    *)
(* with the body's code and message, is_retryable() false, after exactly   *)
(* one attempt, also when max_retries > 0.                                 *)
C9_Case ==
    /\ ResponseInHand
    /\ Len(log) = 1
    /\ cur.status \in {401, 403}
    /\ cur.body.form = "envelope"
    /\ cur.body.type = Some("authentication_error")

C9_AuthenticationOneAttempt ==
    C9_Case
    => /\ pc = "done"
       /\ result.value = None
       /\ result.error # None
       /\ result.error[1].variant = "Authentication"
       /\ result.error[1].code = cur.body.code
       /\ result.error[1].message = cur.body.message
       /\ ~is_retryable(result.error[1])
       /\ dispatches = 1
       /\ sleeps = <<>>

C9_Witness == C9_Case /\ max_retries = 2 /\ cur.status = 403 /\ pc = "done"

(* ---------------------------------------------------------------------- *)
(* C10: a first response with status 402 and error_type                    *)
(* "insufficient_credits" makes the call return InsufficientCredits,       *)
(* is_retryable() false, after exactly one attempt, for every max_retries. *)
C10_Case ==
    /\ ResponseInHand
    /\ Len(log) = 1
    /\ cur.status = 402
    /\ cur.body.form = "envelope"
    /\ cur.body.type = Some("insufficient_credits")

C10_InsufficientCreditsOneAttempt ==
    C10_Case
    => /\ pc = "done"
       /\ result.value = None
       /\ result.error # None
       /\ result.error[1].variant = "InsufficientCredits"
       /\ ~is_retryable(result.error[1])
       /\ dispatches = 1
       /\ sleeps = <<>>

C10_Witness == C10_Case /\ max_retries = 1 /\ pc = "done"

(* ---------------------------------------------------------------------- *)
(* C11: a 2xx response whose body arrives but does not decode as the       *)
(* expected shape makes the call return Json at that attempt: no sleep and *)
(* no dispatch follows, for every max_retries.                             *)
C11_Case == ResponseInHand /\ Is2xx(cur.status) /\ cur.body.form = "text"

C11_DecodeFailureNotRetried ==
    C11_Case
    => /\ pc = "done"
       /\ result = Err(Json)
       /\ dispatches = Len(log)
       /\ Len(sleeps) = Len(log) - 1
       /\ ~ENABLED Next

C11_Witness == C11_Case /\ max_retries = 1 /\ Len(log) = 1 /\ pc = "done"

(* ---------------------------------------------------------------------- *)
(* C12: with_config of an empty api_key returns EmptyApiKey, yields no     *)
(* client and dispatches nothing; with a non-empty api_key it returns the  *)
(* client; so nothing is ever dispatched with an empty key.                *)
C12_EmptyApiKeyRejected ==
    /\ config.api_key = ""
        => /\ pc \in {"new", "rejected"}
           /\ client.value = None
           /\ pc = "rejected" => client = Err(EmptyApiKey)
           /\ dispatches = 0
           /\ log = <<>>
    /\ (config.api_key # "" /\ pc # "new")
        => /\ client.value # None
           /\ client.error = None
           /\ client.value[1].api_key = config.api_key
    /\ dispatches > 0 => (client.value # None /\ client.value[1].api_key # "")

C12_Witness == pc = "rejected" /\ config.api_key = "" /\ client = Err(EmptyApiKey)

(* ---------------------------------------------------------------------- *)
(* C13: a call that returns an error of kind Network, Timeout, Server or   *)
(* RateLimit has made all max_retries + 1 attempts before returning it.    *)
C13_TransientRetriedToBudget ==
    (/\ pc = "done"
     /\ result.error # None
     /\ result.error[1].variant \in {"Network", "Timeout", "Server", "RateLimit"})
    => dispatches = max_retries + 1

(* ---------------------------------------------------------------------- *)
(* C14: an attempt that produces an error of kind Authentication,          *)
(* InvalidRequest, InsufficientCredits, NotFound, Json or Unknown ends the *)
(* call: no sleep and no further attempt follows it (the call has          *)
(* returned, or the exhausted loop is about to).                           *)
C14_OtherKindsSurfaceAtOnce ==
    (/\ cur.kind # "none"
     /\ Produced # None
     /\ Produced[1].variant \in {"Authentication", "InvalidRequest", "InsufficientCredits",
                                 "NotFound", "Json", "Unknown"})
    => \/ pc = "done"
       \/ pc = "send" /\ attempt > max_retries

(* ---------------------------------------------------------------------- *)
(* C18: for every non-2xx status, a body that does not decode as the error *)
(* envelope yields Unknown with the raw status, error_type "unknown", code *)
(* "parse_error", the fixed message and no param: never Server, also for   *)
(* status >= 500.                                                          *)
C18_Case ==
    /\ ResponseInHand
    /\ ~Is2xx(cur.status)
    /\ (cur.body.form # "envelope" \/ cur.body.type = None)

C18_UndecodableIsUnknown ==
    C18_Case
    => Produced = Some([variant |-> "Unknown", status |-> Some(cur.status),
                        error_type |-> Some("unknown"), code |-> Some("parse_error"),
                        message |-> Some("Failed to parse error response"),
                        param |-> None, rate_limit_info |-> None])

C18_Witness ==
    /\ C18_Case
    /\ cur.status = 500
    /\ cur.body.form = "envelope"
    /\ cur.headers.retry_after = Some("5")
    /\ pc = "sleep"

(* ---------------------------------------------------------------------- *)
(* C15: is_retryable() is true for Network, Timeout, Server and RateLimit  *)
(* and false for Authentication, InvalidRequest, InsufficientCredits,      *)
(* NotFound, Json and Unknown, whatever fields the value carries.          *)
C15_IsRetryableByVariant ==
    (fn = "is_retryable" /\ ret # None)
    => /\ arg.variant \in {"Network", "Timeout", "Server", "RateLimit"} => ret[1] = TRUE
       /\ arg.variant \in {"Authentication", "InvalidRequest", "InsufficientCredits",
                           "NotFound", "Json", "Unknown"} => ret[1] = FALSE

C15_Witness ==
    /\ fn = "is_retryable"
    /\ arg.variant = "Timeout"
    /\ ret = Some(TRUE)

(* ---------------------------------------------------------------------- *)
(* C16: from_api_error maps each recognized error_type to its variant for  *)
(* every status; the variant carries message and code unchanged, param     *)
(* where it has one, and rate_limit_info only in RateLimit.                *)
VariantOfType(t) ==
    CASE t = "authentication_error" -> "Authentication"
      [] t = "invalid_request_error" -> "InvalidRequest"
      [] t = "insufficient_credits" -> "InsufficientCredits"
      [] t = "rate_limit_error" -> "RateLimit"
      [] t = "not_found" -> "NotFound"

C16_Case == fn = "from_api_error" /\ ret # None /\ arg.error_type \in RecognizedTypes

C16_RecognizedTypes ==
    C16_Case
    => /\ ret[1].variant = VariantOfType(arg.error_type)
       /\ ret[1].message = Some(arg.message)
       /\ ret[1].code = Some(arg.code)
       /\ ret[1].param = (IF ret[1].variant \in {"Authentication", "InvalidRequest", "NotFound"}
                          THEN arg.param ELSE None)
       /\ ret[1].rate_limit_info = (IF ret[1].variant = "RateLimit"
                                    THEN arg.rate_limit_info ELSE None)
       /\ ret[1].status = None
       /\ ret[1].error_type = None

C16_Witness ==
    /\ C16_Case
    /\ arg.error_type = "rate_limit_error"
    /\ arg.status = 500
    /\ arg.rate_limit_info # None
    /\ ret[1].rate_limit_info = arg.rate_limit_info

(* ---------------------------------------------------------------------- *)
(* C17: from_api_error returns a value for every input, and for every      *)
(* error_type outside the five recognized it returns Server{message, code, *)
(* status} when status >= 500 and Unknown{status, error_type, code,        *)
(* message, param} when status < 500, the fields equal to the inputs.      *)
C17_Case == fn = "from_api_error" /\ arg.error_type \notin RecognizedTypes

C17_UnrecognizedTypes ==
    /\ (fn = "from_api_error" /\ ret = None) => ENABLED Apply_from_api_error
    /\ (C17_Case /\ ret # None)
        => IF arg.status >= 500
           THEN ret[1] = [variant |-> "Server", message |-> Some(arg.message),
                          code |-> Some(arg.code), status |-> Some(arg.status),
                          param |-> None, error_type |-> None, rate_limit_info |-> None]
           ELSE ret[1] = [variant |-> "Unknown", message |-> Some(arg.message),
                          code |-> Some(arg.code), status |-> Some(arg.status),
                          param |-> arg.param, error_type |-> Some(arg.error_type),
                          rate_limit_info |-> None]

C17_Witness ==
    /\ C17_Case
    /\ ret # None
    /\ arg.status = 499
    /\ arg.error_type = "unknown"
    /\ arg.param # None
    /\ ret[1].variant = "Unknown"

(* ---------------------------------------------------------------------- *)
(* C19: from_headers returns a RateLimitInfo exactly when at least one of  *)
(* the four headers is present, whatever its value, and None only when all *)
(* four are absent.                                                        *)
C19_SomeIffAnyHeaderPresent ==
    (fn = "from_headers" /\ ret # None)
    => ((ret[1] # None)
        <=> (\/ arg.limit # None \/ arg.remaining # None
             \/ arg.reset # None \/ arg.retry_after # None))

(* ---------------------------------------------------------------------- *)
(* C20: with several calls interleaved on one client, every call makes the *)
(* attempts, sleeps the delays and returns the outcome it would make,      *)
(* sleep and return alone on the same transport outcomes; the client the   *)
(* calls share never changes.                                              *)
C20_CallsIndependent ==
    /\ client = Ok([api_key |-> config.api_key, max_retries |-> max_retries,
                    base_url |-> base_url(config.base_url)])
    /\ \A c \in CallIds :
        LET run == alone(max_retries, calls[c].outs, 0, None, <<>>)
        IN  /\ calls[c].dispatches <= max_retries + 1
            /\ calls[c].pc = "done"
                => /\ calls[c].result = run.result
                   /\ calls[c].sleeps = run.sleeps
                   /\ calls[c].dispatches = run.dispatches
                   /\ calls[c].dispatches = Len(calls[c].outs)

C20_Witness ==
    /\ max_retries = 1
    /\ calls[1].pc = "done" /\ calls[2].pc = "done"
    /\ calls[1].overlapped /\ calls[2].overlapped
    /\ calls[1].sleeps = <<5000>> /\ calls[2].sleeps = <<1000>>
    /\ calls[1].result.value # None
    /\ calls[2].result.error = Some(Timeout)

(* ---------------------------------------------------------------------- *)
(* C21: cancelling a call at either suspension point stops that call only: *)
(* every other call in flight at that moment can still take its next step, *)
(* and once it has returned it has made the attempts, slept the delays and *)
(* returned the outcome it would have alone on its transport outcomes.     *)
C21_CancellationIsLocal ==
    \A d \in CallIds :
        /\ calls[d].pc = "cancelled" => calls[d].cancel_requested
        /\ calls[d].beside_cancel =>
            /\ calls[d].pc \in {"send", "await", "sleep", "done", "cancelled"}
            /\ InFlight(calls[d]) => ENABLED CStep(d)
            /\ calls[d].pc = "done" =>
                LET run == alone(max_retries, calls[d].outs, 0, None, <<>>)
                IN  /\ calls[d].result = run.result
                    /\ calls[d].sleeps = run.sleeps
                    /\ calls[d].dispatches = run.dispatches

C21_Witness ==
    /\ max_retries = 1
    /\ calls[1].pc = "cancelled"
    /\ calls[1].dispatches = 1 /\ Len(calls[1].outs) = 1
    /\ calls[2].beside_cancel
    /\ calls[2].pc = "done"
    /\ calls[2].sleeps = <<1000>>
    /\ calls[2].result.value # None

(* ---------------------------------------------------------------------- *)
(* C25: when the error recorded at attempt index a carries no retry_after  *)
(* and a retry is left, the delay slept before the next attempt is         *)
(* 1000 * 2^a ms for a < 4 and 10000 ms for every a >= 4, never more than  *)
(* 10000 ms; the call goes on to sleep it.                                 *)
C25_Expected(a) == IF a >= 4 THEN 10000 ELSE 1000 * pow2(a)

C25_ComputedBackoff ==
    /\ pc # "panicked"
    /\ (pc = "sleep" /\ retry_after(last_error[1]) = None)
        => delay = C25_Expected(attempt) /\ delay <= 10000
    /\ \A i \in 1..Len(sleeps) :
        log[i][2] = None => sleeps[i] = C25_Expected(i - 1) /\ sleeps[i] <= 10000

(* ---------------------------------------------------------------------- *)
(* The error one attempt yields by itself: from its response, or from its  *)
(* transport failure.                                                      *)
ErrorOfAttempt(o) ==
    IF o.kind = "response"
    THEN IF Is2xx(o.status)
         THEN success_result(o.body).error
         ELSE Some(response_error(o.status, o.headers, o.body))
    ELSE Some(transport_error(o))

(* The call ran out of attempts: max_retries + 1 are answered and the last *)
(* one did not return from inside the loop.                                *)
Exhausted ==
    /\ pc = "done"
    /\ Len(log) = max_retries + 1
    /\ RetriedOutcome(log[Len(log)])

(* ---------------------------------------------------------------------- *)
(* C22: the error a call records or returns is the error of one attempt,   *)
(* the latest answered: message, code and param come from its body (or are *)
(* the fixed parse-error texts), status is its status and rate_limit_info  *)
(* is parsed from its headers; a transport failure gives an error with no  *)
(* field at all.  Nothing of an earlier attempt is in it.                  *)
C22_ErrorOfOneAttempt ==
    (cur.kind # "none" /\ Produced # None)
    => /\ Produced = ErrorOfAttempt(cur)
       /\ IF cur.kind = "response" /\ ~Is2xx(cur.status)
          THEN /\ Produced[1].message
                    \in {cur.body.message, Some("Failed to parse error response")}
               /\ Produced[1].code \in {cur.body.code, Some("parse_error")}
               /\ Produced[1].param \in {cur.body.param, None}
               /\ Produced[1].status \in {Some(cur.status), None}
               /\ Produced[1].rate_limit_info \in {from_headers(cur.headers), None}
          ELSE Produced[1] = Bare(Produced[1].variant)

C22_Witness ==
    /\ pc = "done"
    /\ max_retries = 2
    /\ log = << <<429, Some("5")>>, <<0, None>>, <<500, None>> >>
    /\ cur.headers = NoHeaders
    /\ cur.body.form = "envelope"
    /\ cur.body.type = Some("rate_limit_error")
    /\ result.error # None
    /\ result.error[1].variant = "RateLimit"
    /\ result.error[1].rate_limit_info = None

(* ---------------------------------------------------------------------- *)
(* C26: no sleep follows the attempt of index max_retries; every attempt   *)
(* but the first is preceded by exactly one sleep; a call that ran out of  *)
(* attempts has slept exactly max_retries times.                           *)
C26_BackoffSkippedOnFinalAttempt ==
    /\ Len(sleeps) <= max_retries
    /\ pc = "sleep" => attempt < max_retries /\ Len(log) <= max_retries
    /\ pc \in {"await", "sleep", "done"} => Len(sleeps) = dispatches - 1
    /\ Exhausted => Len(sleeps) = max_retries /\ dispatches = max_retries + 1

C26_Witness ==
    /\ Exhausted
    /\ max_retries = 2
    /\ \A i \in 1..3 : log[i][1] = 429
    /\ Len(sleeps) = 2

(* ---------------------------------------------------------------------- *)
(* C27: a call that ran out of attempts returns the error of its final     *)
(* attempt, the one of index max_retries, whatever the earlier attempts    *)
(* recorded.                                                               *)
C27_ReturnsFinalAttemptError ==
    Exhausted
    => /\ log[max_retries + 1] = <<cur.status, cur.headers.retry_after>>
       /\ result.value = None
       /\ result.error = ErrorOfAttempt(cur)

C27_Witness ==
    /\ Exhausted
    /\ max_retries = 2
    /\ log[1][1] = 0
    /\ log[2][1] = 429
    /\ log[3][1] = 500
    /\ cur.body.form = "text"
    /\ result.error[1].variant = "Unknown"

(* ---------------------------------------------------------------------- *)
(* C28: after every iteration that did not return last_error is set, so    *)
(* the fallback of the loop exit is never used: a call returns Timeout     *)
(* only when its final attempt was a transport failure that is a timeout.  *)
C28_FallbackTimeoutNeverProduced ==
    /\ (pc \in {"sleep", "panicked"} \/ (pc = "send" /\ attempt > 0)) => last_error # None
    /\ (pc = "done" /\ result.error = Some(Timeout))
        => cur.kind = "timeout" /\ Len(log) = max_retries + 1

C28_Witness ==
    /\ pc = "done"
    /\ max_retries = 1
    /\ log = << <<500, None>>, <<0, None>> >>
    /\ cur.kind = "timeout"
    /\ result = Err(Timeout)

(* ---------------------------------------------------------------------- *)
(* C29: a 2xx response whose body decodes, at any attempt index, makes the *)
(* call return the value at once: no sleep and no dispatch follows, and no *)
(* error of the failed attempts before it is in the result.                *)
C29_Case == ResponseInHand /\ Is2xx(cur.status) /\ cur.body.form = "value"

C29_SuccessReturnsValue ==
    C29_Case
    => /\ pc = "done"
       /\ result = Ok("decoded")
       /\ dispatches = Len(log)
       /\ Len(sleeps) = Len(log) - 1
       /\ ~ENABLED Next

C29_Witness ==
    /\ C29_Case
    /\ max_retries = 2
    /\ Len(log) = 3
    /\ log[1][1] = 500
    /\ log[2][1] = 0

(* ---------------------------------------------------------------------- *)
(* C30: a transport failure is recorded as Timeout when it is a timeout    *)
(* and as Network otherwise; the call does not return from that iteration; *)
(* when a retry is left the backoff (1000 * 2^attempt ms, at most 10000)   *)
(* is slept and the next attempt is dispatched.                            *)
C30_Case == cur.kind \in {"timeout", "connect"}

C30_TransportFailureRetried ==
    C30_Case
    => /\ Produced = Some(IF cur.kind = "timeout" THEN Timeout ELSE Network)
       /\ pc = "done" => Len(log) = max_retries + 1
       /\ Len(log) <= max_retries
            => /\ pc \in {"sleep", "send"}
               /\ pc = "sleep" => /\ attempt = Len(log) - 1
                                  /\ delay = C25_Expected(attempt)
                                  /\ ENABLED Wake
               /\ pc = "send" => /\ attempt = Len(log)
                                 /\ Len(sleeps) = Len(log)
                                 /\ in_range(attempt, max_retries)
                                 /\ ENABLED LoopHead

(* ---------------------------------------------------------------------- *)
(* C23: code() is the carried code for Authentication, InvalidRequest,     *)
(* InsufficientCredits, RateLimit, NotFound, Server and Unknown and none   *)
(* for Network, Json and Timeout; param() is the carried param for         *)
(* Authentication, InvalidRequest, NotFound and Unknown and none for every *)
(* other variant.                                                          *)
C23_CodeAndParamAccessors ==
    /\ (fn = "code" /\ ret # None)
        => /\ arg.variant \in {"Authentication", "InvalidRequest", "InsufficientCredits",
                               "RateLimit", "NotFound", "Server", "Unknown"}
                => ret[1] = arg.code /\ ret[1] # None
           /\ arg.variant \in {"Network", "Json", "Timeout"} => ret[1] = None
    /\ (fn = "param" /\ ret # None)
        => IF arg.variant \in {"Authentication", "InvalidRequest", "NotFound", "Unknown"}
           THEN ret[1] = arg.param
           ELSE ret[1] = None

C23_Witness ==
    /\ fn = "code"
    /\ arg.variant = "Server"
    /\ ret = Some(Some("insufficient_balance"))

(* ---------------------------------------------------------------------- *)
(* C24: the URL of the call is the configured base URL without the         *)
(* slashes at its end, followed by the path; the same base URL given with  *)
(* one more slash at its end gives the same URL; with no base URL          *)
(* configured it is https://api.peerc.at followed by the path.             *)
C24_Given == unwrap_or(arg.base_url, DEFAULT_BASE_URL)

C24_UrlStripsTrailingSlash ==
    (fn = "url" /\ ret # None)
    => /\ \E k \in 0..Len(C24_Given) :
            /\ ret[1] = SubSeq(C24_Given, 1, k) \o arg.path
            /\ \A i \in (k + 1)..Len(C24_Given) : C24_Given[i] = "/"
            /\ k = 0 \/ C24_Given[k] # "/"
       /\ ret[1] = url(base_url(Some(Append(C24_Given, "/"))), arg.path)
       /\ arg.base_url = None => ret[1] = DEFAULT_BASE_URL \o arg.path

C24_Witness ==
    /\ fn = "url"
    /\ arg.base_url = Some(<<"h", "h", "/">>)
    /\ arg.path = <<"/", "h">>
    /\ ret = Some(<<"h", "h", "/", "h">>)

(* ---------------------------------------------------------------------- *)
(* Calls that differ in what they send                                     *)
(* ---------------------------------------------------------------------- *)
ReqRetries == {0, 1, 2}

ReqConfigs == [api_key : ApiKeys \cup {"other_key"},
               max_retries : {Some(n) : n \in ReqRetries},
               base_url : {None, Some(<<"h">>), Some(<<"h", "/">>)}]

(* get and delete pass no body, post and patch pass one.                   *)
ReqArgs ==
    [method : {"GET", "DELETE"}, path : {<<"/", "h">>, <<"/", "v">>}, body : {None}]
    \cup [method : {"POST", "PATCH"}, path : {<<"/", "h">>, <<"/", "v">>},
          body : {Some("params")}]

ReqInit ==
    /\ config \in ReqConfigs
    /\ client = NoResult
    /\ max_retries = 0
    /\ pc = "new"
    /\ attempt = 0
    /\ last_error = None
    /\ delay = 0
    /\ result = NoResult
    /\ dispatches = 0
    /\ sleeps = <<>>
    /\ log = <<>>
    /\ cur = NoOutcome
    /\ fn = "none" /\ arg = None /\ ret = None
    /\ calls = <<>> /\ frames = <<>>
    /\ args \in ReqArgs /\ NoRequests

ReqNext ==
    \/ with_config
    \/ request
    \/ LoopHead
    \/ \E o \in ConcOutcomes : Respond(o)
    \/ \E o \in ConcOutcomes : Fail(o)
    \/ Wake

SpecReq == ReqInit /\ [][ReqNext]_vars

(* ---------------------------------------------------------------------- *)
(* C31: a non-2xx response whose status is 429 or is not in 400..=499 is   *)
(* recorded as last_error, whatever it was classified as, and the call     *)
(* does not return from that iteration; when a retry is left the backoff   *)
(* is slept and the next attempt is dispatched.                            *)
C31_Case == ResponseInHand /\ ~Is2xx(cur.status) /\ ~IsTerminal4xx(cur.status)

C31_RetriedStatusClasses ==
    C31_Case
    => /\ Produced = Some(response_error(cur.status, cur.headers, cur.body))
       /\ pc = "done" => Len(log) = max_retries + 1
       /\ Len(log) <= max_retries
            => /\ pc \in {"sleep", "send"}
               /\ pc = "sleep" => attempt = Len(log) - 1 /\ ENABLED Wake
               /\ pc = "send" => /\ attempt = Len(log)
                                 /\ Len(sleeps) = Len(log)
                                 /\ ENABLED LoopHead

(* ---------------------------------------------------------------------- *)
(* C35: for every attempt index a with 4 <= a < max_retries the product    *)
(* 1000 * 2^a is evaluated in u64 without overflow (no panic, no wrap) and *)
(* the computed delay is 10000 ms; the computed delays never decrease.     *)
C35_NoOverflowInBackoff ==
    /\ pc # "panicked"
    /\ (pc = "sleep" /\ attempt >= 4) => ~overflows(BASE_DELAY, attempt)
    /\ (pc = "sleep" /\ attempt >= 4 /\ retry_after(last_error[1]) = None)
        => delay = 10000
    /\ \A i \in 1..(Len(sleeps) - 1) :
        (log[i][2] = None /\ log[i + 1][2] = None) => sleeps[i] <= sleeps[i + 1]

(* ---------------------------------------------------------------------- *)
(* C38: a call returns: until it has, a next step of the loop is always    *)
(* there to take (a dispatch, its answer, the end of a sleep), the attempt *)
(* index only grows, and the loop body runs at most max_retries + 1 times. *)
C38_ReturnsOrCanStep ==
    /\ pc = "done" \/ ENABLED LongNext
    /\ attempt <= max_retries + 1
    /\ dispatches <= max_retries + 1
    /\ pc \in {"await", "sleep"} => dispatches = attempt + 1

(* ---------------------------------------------------------------------- *)
(* C32: the delay slept is retry_after * 1000 ms exactly when the recorded *)
(* error is a RateLimit whose rate_limit_info has a retry_after; after any *)
(* other recorded error (Server, Unknown, ...) it is the exponential       *)
(* delay, also when the response carried a Retry-After header.             *)
C32_Carries ==
    /\ last_error # None
    /\ last_error[1].variant = "RateLimit"
    /\ last_error[1].rate_limit_info # None
    /\ last_error[1].rate_limit_info[1].retry_after # None

C32_OverrideOnlyForRateLimit ==
    pc = "sleep"
    => /\ IF C32_Carries
          THEN delay = last_error[1].rate_limit_info[1].retry_after[1] * 1000
          ELSE delay = C25_Expected(attempt)
       /\ last_error[1].variant # "RateLimit" => delay = C25_Expected(attempt)

C32_Witness ==
    /\ pc = "sleep"
    /\ attempt = 1
    /\ cur.status = 429
    /\ cur.body.form = "text"
    /\ cur.headers.retry_after = Some("5")
    /\ last_error[1].variant = "Unknown"
    /\ delay = 2000

(* ---------------------------------------------------------------------- *)
(* C36: a 2xx response is the last attempt of its call: the call returns   *)
(* at that attempt the value when the body decodes, Json when it does not  *)
(* decode and Network when it cannot be read; no sleep and no dispatch     *)
(* follows.                                                                *)
C36_Case == ResponseInHand /\ Is2xx(cur.status)

C36_SuccessStatusAlwaysReturns ==
    C36_Case
    => /\ pc = "done"
       /\ result = (CASE cur.body.form = "value" -> Ok("decoded")
                      [] cur.body.form = "unreadable" -> Err(Network)
                      [] OTHER -> Err(Json))
       /\ dispatches = Len(log)
       /\ Len(sleeps) = Len(log) - 1
       /\ ~ENABLED Next

C36_Witness ==
    /\ C36_Case
    /\ max_retries = 2
    /\ Len(log) = 2
    /\ log[1][1] = 429
    /\ cur.body.form = "unreadable"
    /\ result = Err(Network)

(* ---------------------------------------------------------------------- *)
(* C37: the delay slept after attempt a is a function of a and of the      *)
(* outcome of attempt a: the Retry-After of that response times 1000 when  *)
(* it is a rate_limit_error whose Retry-After parses, the exponential      *)
(* delay of a otherwise; a retry_after of an earlier attempt is not in it. *)
C37_DelayOf(a, o) ==
    IF /\ o.kind = "response"
       /\ decode_error_response(o.body) # None
       /\ o.body.type = Some("rate_limit_error")
       /\ and_then_parse(o.headers.retry_after) # None
    THEN and_then_parse(o.headers.retry_after)[1] * 1000
    ELSE C25_Expected(a)

C37_DelayFromThisAttemptOnly ==
    pc = "sleep" => cur.kind # "none" /\ delay = C37_DelayOf(attempt, cur)

C37_Witness ==
    /\ pc = "sleep"
    /\ max_retries = 2
    /\ sleeps = <<5000>>
    /\ attempt = 1
    /\ cur.status = 500
    /\ cur.headers = NoHeaders
    /\ delay = 2000

(* ---------------------------------------------------------------------- *)
(* C34: when the override applies the delay is retry_after * 1000 ms for   *)
(* every u64 retry_after: the product is not capped, it is 0 for 0, and    *)
(* the multiplication neither panics nor wraps.                            *)
C34_OverrideIsExactProduct ==
    (fn = "override_delay" /\ ret # None)
    => /\ ~ret[1].panicked
       /\ ret[1].delay = mul_bits(arg, BASE_DELAY)
       /\ arg = {} => ret[1].delay = {}

(* ---------------------------------------------------------------------- *)
(* C33: every attempt of one call sends the same request: the method of    *)
(* the call, the URL base_url + path, the headers Authorization: Bearer    *)
(* <api_key> and Content-Type: application/json, and the body of the call  *)
(* as JSON; one request is sent per dispatch.                              *)
C33_TheRequest ==
    [method |-> args.method,
     url |-> trim_end_matches(unwrap_or(config.base_url, DEFAULT_BASE_URL), "/") \o args.path,
     headers |-> <<<<"Authorization", <<"Bearer ", config.api_key>>>>,
                   <<"Content-Type", "application/json">>>>,
     body |-> IF args.body = None THEN None ELSE Some(<<"json", args.body[1]>>)]

C33_SameRequestEveryAttempt ==
    /\ Len(sent) = dispatches
    /\ \A i \in 1..Len(sent) : sent[i] = C33_TheRequest

C33_Witness ==
    /\ Len(sent) = 3
    /\ args.method = "POST"
    /\ args.body # None
    /\ config.base_url = Some(<<"h", "/">>)
    /\ config.api_key = "other_key"
    /\ sent[3] = sent[1]
    /\ sent[3].url = <<"h", "/", "v">>
    /\ log[1][1] = 429
    /\ log[2][1] = 0

(* ---------------------------------------------------------------------- *)
(* C39: the attempts, the delays and the outcome of a call are a function  *)
(* of max_retries and of the outcomes of its dispatches: whatever the      *)
(* api_key, the base_url, the method, the path and the body, a call that   *)
(* has returned dispatched, slept and returned what that function says.    *)
(* ConcOutcomes holds one outcome per status, so the status logged names   *)
(* the outcome of the attempt.                                             *)
C39_Observed ==
    [i \in 1..Len(log) |-> CHOOSE o \in ConcOutcomes : o.status = log[i][1]]

C39_DeterminedByOutcomes ==
    pc = "done"
    => LET r == alone(max_retries, C39_Observed, 0, None, <<>>)
       IN  /\ result = r.result
           /\ sleeps = r.sleeps
           /\ dispatches = r.dispatches

C39_Witness ==
    /\ pc = "done"
    /\ max_retries = 2
    /\ args.method = "POST"
    /\ config.api_key = "other_key"
    /\ config.base_url = Some(<<"h">>)
    /\ sleeps = <<5000, 2000>>
    /\ log[3][1] = 403
    /\ result.error # None

====
